---- MODULE Spec2Model ----
(***************************************************************************)
(* Model of image-json-gen: src/index.ts builds one ImageGenerationPrompt  *)
(* literal, spreads it behind a fixed `$schema` field, serializes it with  *)
(* SuperJSON.stringify and writes the text to prompt.json with Bun.write.  *)
(*                                                                         *)
(* JavaScript values are tagged records; an object is the ordered sequence *)
(* of its own enumerable properties.  Finite numbers are counted in tenths *)
(* (8 is 0.8, -150 is -15), the non-finite ones and -0 have their own tag. *)
(* The JSON text is a sequence of tokens.                                  *)
(***************************************************************************)
EXTENDS Integers, Sequences, FiniteSets, TLC

\* ------------------------------------------------------------------------
\* JavaScript values
\* ------------------------------------------------------------------------
Str(s) == [t |-> "str", s |-> s]
Num(n) == [t |-> "num", n |-> n]
NaN == [t |-> "nan"]
PosInfinity == [t |-> "inf"]
NegInfinity == [t |-> "ninf"]
NegZero == [t |-> "negzero"]
Undefined == [t |-> "undefined"]
Null == [t |-> "null"]
Arr(items) == [t |-> "arr", items |-> items]
Obj(fields) == [t |-> "obj", fields |-> fields]
Prop(k, v) == [k |-> k, v |-> v]

\* `const x = e; F(x)`: e is evaluated once and F sees its value.
Let(e, F(_)) == CHOOSE r \in {F(x) : x \in {e}} : TRUE

Keys(o) == [i \in 1..Len(o.fields) |-> o.fields[i].k]
HasKey(o, k) == \E i \in 1..Len(o.fields) : o.fields[i].k = k
Get(o, k) ==
  IF HasKey(o, k)
    THEN o.fields[CHOOSE i \in 1..Len(o.fields) : o.fields[i].k = k].v
    ELSE Undefined

\* o[k] = v on an ordinary object: an existing key keeps its position and
\* takes the new value, a new key goes last.
SetProp(o, k, v) ==
  IF HasKey(o, k)
    THEN Obj([i \in 1..Len(o.fields) |->
               IF o.fields[i].k = k THEN Prop(k, v) ELSE o.fields[i]])
    ELSE Obj(Append(o.fields, Prop(k, v)))

\* ------------------------------------------------------------------------
\* src/index.ts, lines 4-51: the prompt literal
\* ------------------------------------------------------------------------
SchemaUrl ==
  "https://raw.githubusercontent.com/xcaeser/generation-schemas/main/schemas/v1.0.0/image-generation.schema.json"

SmoothiePrompt ==
  Obj(<<
    Prop("scene", Str("A red smoothie on a premium kitchen countertop")),
    Prop("background", Obj(<<
      Prop("elements", Arr(<<>>)),
      Prop("depth_of_field", Str("anamorphic bokeh (oval-shaped)")) >>)),
    Prop("camera", Obj(<<
      Prop("angle", Str("crane shot (camera moves vertically on a crane, implies changing perspective)")),
      Prop("distance", Str("cutaway shot (briefly shows something other than main action)")),
      Prop("focus", Str("follow focus (keeping a moving subject sharp)")),
      Prop("lens_type", Str("prime lens (fixed focal length, often sharper)")) >>)),
    Prop("color_palette", Arr(<<Str("white"), Str("red"), Str("black")>>)),
    Prop("lighting", Str("candlelight (warm, flickering, intimate)")),
    Prop("composition", Str("depth (foreground, middle ground, background layers)")),
    Prop("mood", Str("cozy and comforting")),
    Prop("props", Arr(<<Str("none")>>)),
    Prop("resolution", Obj(<<
      Prop("width", Str("4096")),
      Prop("height", Str("4320")),
      Prop("aspect_ratio", Str("16:9")),
      Prop("dpi", Str("300 (Standard Print)")) >>)),
    Prop("style", Str("HDR photography (high dynamic range)")),
    Prop("subjects", Arr(<<
      Obj(<<
        Prop("description", Str("A red smoothie in a glass")),
        Prop("expression", Str("happy")),
        Prop("pose", Str("sitting")),
        Prop("position", Str("middle-left midground")),
        Prop("type", Str("glass with smoothie")) >>) >>)),
    Prop("text_overlays", Arr(<<
      Obj(<<
        Prop("content", Str("A red smoothie on a premium kitchen countertop")),
        Prop("position", Str("top-center edge")),
        Prop("style", Str("bold")),
        Prop("size", Str("large")),
        Prop("font_color", Str("gold")),
        Prop("font_family", Str("Futura Condensed Bold")),
        Prop("opacity", Num(8)),
        Prop("rotation", Num(-150)) >>) >>)),
    Prop("guidance_scale", Num(100)) >>)

\* ------------------------------------------------------------------------
\* src/index.ts, lines 53-57: { $schema: "...", ...prompt }
\* ------------------------------------------------------------------------
RECURSIVE AssignAll(_, _, _)
AssignAll(target, fields, i) ==
  IF i > Len(fields) THEN target
  ELSE Let(SetProp(target, fields[i].k, fields[i].v),
           LAMBDA assigned : AssignAll(assigned, fields, i + 1))

\* Variant: optional fields the caller left out are filled in.
SpreadWithDefaults(p) ==
  AssignAll(Obj(<<Prop("$schema", Str(SchemaUrl)),
                  Prop("seed", Null),
                  Prop("negative_prompt", Str(""))>>), p.fields, 1)

\* The object literal: `$schema` is defined first, then every own property
\* of the spread operand is defined on the same object in its order.
Spread(p) ==
  AssignAll(Obj(<<Prop("$schema", Str(SchemaUrl))>>), p.fields, 1)

\* ------------------------------------------------------------------------
\* superjson: path keys of the annotation tree
\* ------------------------------------------------------------------------
CharAt(s, i) == SubSeq(s, i, i)

\* key.replace(/\\/g, '\\\\').replace(/\./g, '\\.')
RECURSIVE escapeKeyFrom(_, _)
escapeKeyFrom(key, i) ==
  IF i > Len(key) THEN ""
  ELSE (IF CharAt(key, i) = "\\" THEN "\\\\"
        ELSE IF CharAt(key, i) = "." THEN "\\."
        ELSE CharAt(key, i))
       \o escapeKeyFrom(key, i + 1)

escapeKey(key) == escapeKeyFrom(key, 1)

\* The character loop of parsePath: `result` collects the finished
\* segments, `segment` the one being read.
RECURSIVE parsePathFrom(_, _, _, _)
parsePathFrom(string, i, segment, result) ==
  IF i > Len(string) THEN Append(result, segment)
  ELSE LET c == CharAt(string, i)
           n == IF i < Len(string) THEN CharAt(string, i + 1) ELSE ""
       IN IF c = "\\" /\ n = "\\"
            THEN parsePathFrom(string, i + 2, segment \o "\\", result)
          ELSE IF c = "\\" /\ n = "."
            THEN parsePathFrom(string, i + 2, segment \o ".", result)
          ELSE IF c = "."
            THEN parsePathFrom(string, i + 1, "", Append(result, segment))
          ELSE parsePathFrom(string, i + 1, segment \o c, result)

parsePath(string) == parsePathFrom(string, 1, "", <<>>)

\* ------------------------------------------------------------------------
\* superjson: walker / serialize
\* ------------------------------------------------------------------------
\* What one walked child adds to its parent's annotations: a leaf
\* annotation goes under the escaped key, an inner tree is flattened under
\* escapeKey(index) + '.' + key.
innerAnnotations(index, r) ==
  IF r.leaf # ""
    THEN <<Prop(escapeKey(index), r.leaf)>>
    ELSE [j \in 1..Len(r.inner) |->
            Prop(escapeKey(index) \o "." \o r.inner[j].k, r.inner[j].v)]

RECURSIVE walker(_), walkProps(_, _, _, _), walkItems(_, _, _, _)
walker(v) ==
  CASE v.t = "undefined" -> [tv |-> Null, leaf |-> "undefined", inner |-> <<>>]
    [] v.t = "nan"       -> [tv |-> Str("NaN"), leaf |-> "number", inner |-> <<>>]
    [] v.t = "inf"       -> [tv |-> Str("Infinity"), leaf |-> "number", inner |-> <<>>]
    [] v.t = "ninf"      -> [tv |-> Str("-Infinity"), leaf |-> "number", inner |-> <<>>]
    [] v.t = "negzero"   -> [tv |-> Str("-0"), leaf |-> "number", inner |-> <<>>]
    [] v.t = "obj"       -> walkProps(v.fields, 1, <<>>, <<>>)
    [] v.t = "arr"       -> walkItems(v.items, 1, <<>>, <<>>)
    [] OTHER             -> [tv |-> v, leaf |-> "", inner |-> <<>>]

walkProps(fields, i, transformed, annotations) ==
  IF i > Len(fields)
    THEN [tv |-> Obj(transformed), leaf |-> "", inner |-> annotations]
    ELSE Let(walker(fields[i].v),
             LAMBDA r :
               walkProps(fields, i + 1,
                         Append(transformed, Prop(fields[i].k, r.tv)),
                         annotations \o innerAnnotations(fields[i].k, r)))

walkItems(items, i, transformed, annotations) ==
  IF i > Len(items)
    THEN [tv |-> Arr(transformed), leaf |-> "", inner |-> annotations]
    ELSE Let(walker(items[i]),
             LAMBDA r :
               walkItems(items, i + 1,
                         Append(transformed, r.tv),
                         annotations \o innerAnnotations(ToString(i - 1), r)))

\* { json } plus, only when something was annotated, { meta: { values } }.
valuesOf(annotations) ==
  Obj([j \in 1..Len(annotations) |->
        Prop(annotations[j].k, Arr(<<Str(annotations[j].v)>>))])

serialize(object) ==
  Let(walker(object),
      LAMBDA output :
        Obj(<<Prop("json", output.tv)>> \o
            (IF output.inner # <<>>
               THEN <<Prop("meta", Obj(<<Prop("values", valuesOf(output.inner))>>))>>
               ELSE <<>>)))

\* ------------------------------------------------------------------------
\* JSON.stringify / JSON.parse over tokens
\* ------------------------------------------------------------------------
Punct(c) == [k |-> "punct", s |-> c]
TokStr(s) == [k |-> "string", s |-> s]
TokNum(n) == [k |-> "number", n |-> n]
TokNull == [k |-> "null"]

RECURSIVE JSON_stringify(_), stringifyItems(_, _), stringifyProps(_, _, _)
JSON_stringify(v) ==
  CASE v.t = "str"     -> <<TokStr(v.s)>>
    [] v.t = "num"     -> <<TokNum(v.n)>>
    [] v.t = "negzero" -> <<TokNum(0)>>
    [] v.t = "arr"     -> <<Punct("[")>> \o stringifyItems(v.items, 1) \o <<Punct("]")>>
    [] v.t = "obj"     -> <<Punct("{")>> \o stringifyProps(v.fields, 1, TRUE) \o <<Punct("}")>>
    [] OTHER           -> <<TokNull>>

stringifyItems(items, i) ==
  IF i > Len(items) THEN <<>>
  ELSE (IF i > 1 THEN <<Punct(",")>> ELSE <<>>)
       \o JSON_stringify(items[i]) \o stringifyItems(items, i + 1)

\* A property whose value is undefined is left out of the text.
stringifyProps(fields, i, first) ==
  IF i > Len(fields) THEN <<>>
  ELSE IF fields[i].v.t = "undefined" THEN stringifyProps(fields, i + 1, first)
  ELSE (IF first THEN <<>> ELSE <<Punct(",")>>)
       \o <<TokStr(fields[i].k), Punct(":")>>
       \o JSON_stringify(fields[i].v)
       \o stringifyProps(fields, i + 1, FALSE)

\* Recursive descent over well-formed text; each step returns the value
\* read and the tokens left.
RECURSIVE parseValue(_), parseItems(_, _), parseMembers(_, _)
parseValue(ts) ==
  LET h == Head(ts) IN
  CASE h.k = "string" -> [v |-> Str(h.s), rest |-> Tail(ts)]
    [] h.k = "number" -> [v |-> Num(h.n), rest |-> Tail(ts)]
    [] h.k = "null"   -> [v |-> Null, rest |-> Tail(ts)]
    [] h = Punct("[") ->
         IF Head(Tail(ts)) = Punct("]")
           THEN [v |-> Arr(<<>>), rest |-> Tail(Tail(ts))]
           ELSE parseItems(Tail(ts), <<>>)
    [] h = Punct("{") ->
         IF Head(Tail(ts)) = Punct("}")
           THEN [v |-> Obj(<<>>), rest |-> Tail(Tail(ts))]
           ELSE parseMembers(Tail(ts), Obj(<<>>))

parseItems(ts, items) ==
  LET r == parseValue(ts) IN
  IF Head(r.rest) = Punct(",")
    THEN parseItems(Tail(r.rest), Append(items, r.v))
    ELSE [v |-> Arr(Append(items, r.v)), rest |-> Tail(r.rest)]

parseMembers(ts, object) ==
  LET key == Head(ts).s
      r == parseValue(Tail(Tail(ts)))
      next == SetProp(object, key, r.v)
  IN IF Head(r.rest) = Punct(",")
       THEN parseMembers(Tail(r.rest), next)
       ELSE [v |-> next, rest |-> Tail(r.rest)]

\* What JSON.parse throws on empty text or on text left over after the value.
SyntaxError == [t |-> "SyntaxError"]

JSON_parse(text) ==
  IF text = <<>> THEN SyntaxError
  ELSE LET r == parseValue(text)
       IN IF r.rest = <<>> THEN r.v ELSE SyntaxError

\* ------------------------------------------------------------------------
\* superjson: deserialize
\* ------------------------------------------------------------------------
untransformValue(v, type) ==
  IF type = "undefined" THEN Undefined
  ELSE CASE v.s = "NaN"       -> NaN
         [] v.s = "Infinity"  -> PosInfinity
         [] v.s = "-Infinity" -> NegInfinity
         [] v.s = "-0"        -> NegZero

RECURSIVE setDeep(_, _, _)
setDeep(object, path, type) ==
  IF path = <<>> THEN untransformValue(object, type)
  ELSE IF object.t = "arr"
    THEN LET row == CHOOSE i \in 1..Len(object.items) : ToString(i - 1) = Head(path)
         IN Arr([object.items EXCEPT ![row] = setDeep(@, Tail(path), type)])
    ELSE Obj([i \in 1..Len(object.fields) |->
               IF object.fields[i].k = Head(path)
                 THEN Prop(Head(path), setDeep(object.fields[i].v, Tail(path), type))
                 ELSE object.fields[i]])

RECURSIVE applyValueAnnotations(_, _, _)
applyValueAnnotations(plain, annotations, i) ==
  IF i > Len(annotations) THEN plain
  ELSE applyValueAnnotations(
         setDeep(plain, parsePath(annotations[i].k), annotations[i].v.items[1].s),
         annotations, i + 1)

deserialize(payload) ==
  LET json == Get(payload, "json")
      meta == Get(payload, "meta")
  IN IF meta.t = "obj" /\ HasKey(meta, "values")
       THEN applyValueAnnotations(json, Get(meta, "values").fields, 1)
       ELSE json

\* Variant: the document is written with JSON.stringify, without the
\* { json, meta } envelope.
SuperJSON_stringifyPlain(object) == JSON_stringify(object)

SuperJSON_stringify(object) ==
  Let(serialize(object), LAMBDA payload : JSON_stringify(payload))
SuperJSON_parse(text) ==
  LET payload == JSON_parse(text)
  IN IF payload = SyntaxError THEN SyntaxError ELSE deserialize(payload)

\* ------------------------------------------------------------------------
\* src/types.ts: the declared shape, and the literals a run may start from
\* ------------------------------------------------------------------------
\* The listed constants of the enum-like union types (src/types.ts,
\* lines 178-621).
StyleOption ==
  { "photorealistic, cinematic", "documentary photography",
    "street photography (e.g., Henri Cartier-Bresson style)",
    "fashion photography (e.g., Vogue, editorial)",
    "portrait photography (e.g., headshot, environmental)",
    "landscape photography (e.g., Ansel Adams style, epic vista)",
    "architectural photography (interior/exterior)", "fine art photography",
    "black and white photography (monochrome, high contrast B&W)",
    "sepia tone photography", "HDR photography (high dynamic range)",
    "macro photography (extreme close-up)", "wildlife photography",
    "sports photography (action shot)",
    "product photography (studio lit, clean background)",
    "food photography (appetizing, top-down)",
    "astrophotography (stars, nebulae)", "aerial photography (drone shot)",
    "underwater photography", "lomography / lomo effect",
    "Polaroid / instant film style",
    "vintage photography (e.g., daguerreotype, tintype)", "double exposure",
    "long exposure photography (light trails, blurred water)",
    "impressionistic oil painting (e.g., Monet, Renoir)",
    "expressionistic painting (e.g., Munch, Kirchner)",
    "surrealism (e.g., Dali, Magritte)",
    "abstract art (e.g., Kandinsky, Pollock)",
    "cubism (e.g., Picasso, Braque)", "pop art (e.g., Warhol, Lichtenstein)",
    "renaissance painting (e.g., da Vinci, Michelangelo)",
    "baroque painting (e.g., Rembrandt, Caravaggio)",
    "romanticism painting (e.g., Turner, Friedrich)",
    "watercolor painting (soft, blended)", "gouache illustration",
    "charcoal sketch (textured, smudged)",
    "pencil drawing (graphite, detailed)",
    "ink drawing (pen and ink, stippling, cross-hatching)",
    "comic book art (e.g., Marvel, DC style, dynamic panels)",
    "graphic novel style (cinematic illustration)",
    "concept art (for games/film, detailed environment/character)",
    "children's book illustration (whimsical, colorful)",
    "storybook illustration",
    "technical illustration (precise, diagrammatic)", "instructional diagram",
    "ukiyo-e (Japanese woodblock print)",
    "anime concept art (e.g., Makoto Shinkai, Studio Ghibli)",
    "manga style (black and white, screentones)",
    "steampunk digital illustration",
    "cyberpunk aesthetic (neon, futuristic)", "vaporwave aesthetic",
    "synthwave aesthetic", "low poly 3D render",
    "high poly 3D render (detailed mesh)", "cel-shaded 3D (toon shading)",
    "photorealistic 3D render (Unreal Engine, Octane render)", "voxel art",
    "pixel art (e.g., 8-bit, 16-bit, isometric)", "glitch art",
    "Art Nouveau poster design (e.g., Mucha)",
    "Art Deco design (geometric, luxurious)",
    "Bauhaus design (minimalist, functional)",
    "Swiss Design / International Typographic Style",
    "vector art (clean lines, flat colors)", "minimalist design",
    "grunge aesthetic", "collage art", "graffiti art", "silhouette art",
    "stained glass window style", "mosaic art", "blueprint drawing style",
    "thermal imaging style", "x-ray style", "infrared photography style",
    "cinematic still (from a film)",
    "film noir style (high contrast, shadows)",
    "sci-fi concept art (e.g., Syd Mead style)",
    "fantasy art (e.g., Frank Frazetta style)",
    "style of [Specific Artist Name, e.g., Van Gogh, H.R. Giger]" }

LightingOption ==
  { "golden hour (sunrise/sunset, soft warm light, long shadows)",
    "blue hour (twilight, cool deep blue tones)",
    "high noon (harsh overhead sun, strong shadows)",
    "overcast day (diffused, even, soft shadows)",
    "dappled sunlight (through leaves/trees)",
    "moonlit night (cool blue, subtle highlights, deep shadows)",
    "starlight (very low light, long exposure needed for stars)",
    "aurora borealis / australis (northern/southern lights)",
    "studio lighting (controlled, versatile)",
    "three-point lighting (key, fill, backlight)",
    "Rembrandt lighting (triangular light on cheek)",
    "split lighting (half face lit, half shadow)",
    "butterfly lighting (Paramount, shadow under nose)",
    "loop lighting (small loop shadow from nose)",
    "broad lighting (main light on side of face towards camera)",
    "short lighting (main light on side of face away from camera)",
    "rim lighting / kicker (outlines subject from behind)",
    "hair light (separates subject from background)",
    "softbox lighting (large, diffused, soft shadows)",
    "hard light (direct sun, spotlight, crisp shadows)",
    "ring light (even, often for portraits/vlogging)",
    "fluorescent lighting (cool, greenish tint typical)",
    "incandescent / tungsten lighting (warm, orange tint)",
    "LED panel lighting (versatile, dimmable, color temp adjustable)",
    "neon city lights (vibrant, colorful reflections, cyberpunk)",
    "candlelight (warm, flickering, intimate)",
    "firelight (warm, dynamic shadows)",
    "spotlight (focused beam, dramatic emphasis)", "lantern light",
    "halogen lamp", "blacklight / UV light",
    "dramatic chiaroscuro (strong contrast, deep shadows)",
    "backlit (subject in silhouette or with glowing edges)",
    "contre-jour (shooting against the light source)", "silhouette lighting",
    "volumetric lighting / god rays (visible beams of light)",
    "lens flare (anamorphic, spherical)",
    "eerie bioluminescent glow (from flora/fauna)",
    "underwater caustics (light patterns through water)",
    "foggy / misty diffused light (atmospheric perspective)",
    "low-key lighting (dark tones dominate, high contrast)",
    "high-key lighting (bright tones dominate, low contrast)",
    "gel lighting (colored gels on lights for artistic effect)",
    "projected light patterns (gobos)",
    "light painting (long exposure with moving light source)" }

MoodOption ==
  { "serene and peaceful", "joyful and vibrant", "sad and melancholic",
    "angry and intense", "fearful and suspenseful",
    "surprised and awe-struck", "dark and ominous",
    "mysterious and enchanting", "nostalgic and wistful",
    "epic and awe-inspiring", "whimsical and playful",
    "romantic and intimate", "tense and dramatic", "eerie and unsettling",
    "hopeful and uplifting", "lonely and desolate", "powerful and commanding",
    "dreamlike and surreal", "chaotic and frenetic", "calm and tranquil",
    "cozy and comforting", "cold and isolating", "warm and inviting",
    "opulent and luxurious", "gritty and raw", "sterile and clinical",
    "sacred and reverent", "absurd and comical", "horror / terrifying",
    "thriller / suspenseful", "comedy / lighthearted", "sci-fi / futuristic",
    "fantasy / magical", "film noir / brooding" }

DepthOfFieldOption ==
  { "shallow (blurred background, subject sharp, f/1.2-f/2.8)",
    "medium (some background separation, f/4-f/8)",
    "deep (most of scene in focus, f/11-f/22+)",
    "everything tack sharp (infinite DoF illusion)",
    "strong bokeh (background heavily blurred, creamy)",
    "creamy bokeh (smooth, non-distracting blur)",
    "busy bokeh (distracting, harsh highlights in blur)",
    "swirly bokeh (vintage lens effect, Petzval)",
    "soap bubble bokeh (defined edges on highlights)",
    "anamorphic bokeh (oval-shaped)",
    "bokeh balls (distinct circular highlights)",
    "extreme shallow DoF (subject isolated, paper-thin focus plane)",
    "foreground blurred, subject sharp, background blurred (sandwich)",
    "subject sharp, foreground blurred, background sharp (deep focus with foreground element)",
    "tilt-shift effect (miniature faking, selective focus plane)",
    "Lensbaby effect (sweet spot of focus, surrounding blur)",
    "motion blur in background (subject sharp, panning effect)",
    "soft focus filter effect (dreamy, glowing highlights)" }

CompositionOption ==
  { "rule of thirds (intersections or lines)",
    "golden ratio (phi grid, spiral)", "Fibonacci spiral",
    "rule of odds (odd number of subjects)",
    "leading lines (guiding eye to subject)",
    "diagonal lines (dynamic, energy)", "horizontal lines (calm, stability)",
    "vertical lines (strength, height)",
    "curved lines / S-curve (flow, elegance)",
    "triangles (stable or dynamic)", "circles / radial balance",
    "symmetrical balance (formal, mirrored)",
    "asymmetrical balance (informal, visual weight distributed)",
    "centered subject (strong focal point, minimalist)",
    "frame within a frame (using elements to frame subject)",
    "negative space (empty areas emphasizing subject)",
    "fill the frame (subject dominates, no distractions)",
    "leading room / nose room (space in direction of gaze/movement)",
    "head room (space above subject's head)",
    "dynamic symmetry (armature grids)",
    "pattern and repetition (rhythm, texture)",
    "breaking patterns (emphasis on the anomaly)",
    "juxtaposition (contrasting elements)", "visual weight and balance",
    "viewpoint / perspective (low, high, unusual)",
    "depth (foreground, middle ground, background layers)",
    "figure-ground relationship (subject distinct from background)" }

CameraAngleOption ==
  { "eye-level shot (neutral, relatable)",
    "low-angle shot (subject appears powerful, heroic)",
    "high-angle shot (subject appears small, vulnerable)",
    "bird's-eye view (directly overhead, map-like)",
    "worm's-eye view (directly from below, imposing)",
    "Dutch angle / canted angle (tilted, conveys unease/dynamism)",
    "frontal shot (direct, confrontational)",
    "profile shot (side view, emphasizes silhouette)",
    "three-quarter view (common for portraits, shows dimension)",
    "over-the-shoulder shot (OTS, connects characters)",
    "point of view (POV, sees through subject's eyes)",
    "reverse angle shot (shows opposite perspective)",
    "canted frame (slight tilt)",
    "ground-level shot (camera very low to the ground)",
    "crane shot (camera moves vertically on a crane, implies changing perspective)" }

CameraDistanceOption ==
  { "extreme close-up (ECU) (e.g., eyes, mouth, small detail)",
    "tight close-up (TCU) (just the face)",
    "close-up (CU) (head and shoulders)", "medium close-up (MCU) (chest up)",
    "medium shot (MS) (waist up, shows some environment)",
    "medium full shot / cowboy shot (MLS) (mid-thigh or knees up)",
    "full shot (FS) (entire body from head to toe)",
    "long shot (LS) (subject visible, but environment dominates)",
    "wide shot (WS) (similar to LS, emphasizes breadth)",
    "extreme long shot (ELS) (subject tiny, vast landscape, establishing)",
    "establishing shot (opens a scene, shows location)",
    "master shot (covers all action in a scene from one angle)",
    "two-shot (frames two subjects)",
    "group shot (frames three or more subjects)",
    "insert shot (close-up of an object or detail relevant to the scene)",
    "cutaway shot (briefly shows something other than main action)" }

CameraLensOption ==
  { "standard lens (e.g., 35-50mm equivalent, natural perspective)",
    "wide-angle lens (e.g., 16-35mm, expansive view, potential distortion)",
    "ultra-wide-angle lens (e.g., <16mm, extreme field of view)",
    "telephoto lens (e.g., 70-200mm, compresses perspective, isolates subject)",
    "super-telephoto lens (e.g., 300mm+, extreme compression/magnification)",
    "fisheye lens (extreme distortion, circular or very wide view)",
    "macro lens (for extreme close-ups of small details)",
    "prime lens (fixed focal length, often sharper)",
    "zoom lens (variable focal length)",
    "tilt-shift lens (selective focus plane, miniature effect)" }

CameraFocusOption ==
  { "pin-sharp focus on primary subject",
    "tack-sharp eyes, face slightly softer",
    "everything in sharp focus (deep focus, f/16+)",
    "selective focus (isolating subject from background/foreground)",
    "shallow depth of field, sharp subject, blurred background",
    "soft focus overall (dreamy, ethereal, vintage look)",
    "out-of-focus foreground elements (framing, depth)",
    "bokehlicious (prominent, aesthetically pleasing bokeh)",
    "background completely obliterated (extreme shallow DoF)",
    "rack focus / focus pull (shifting focus between planes)",
    "follow focus (keeping a moving subject sharp)",
    "zone focusing (pre-focusing for street photography)",
    "manual focus aesthetic (implies careful control)",
    "split diopter effect (two planes of focus sharp)",
    "Lensbaby selective focus (sweet spot of sharp, artistic blur)",
    "intentional motion blur on subject (conveys movement)",
    "everything intentionally out of focus (abstract, impressionistic)" }

AspectRatioOption ==
  { "1:1 (Square)", "9:16 (Portrait Widescreen - Stories, TikTok)",
    "4:5 (Portrait - Instagram Feed)", "3:4 (Portrait Standard)",
    "2:3 (Portrait Photography - DSLR/Mirrorless)",
    "5:7 (Portrait Photo Print)",
    "16:9 (Landscape Widescreen - HD/4K Video, YouTube)",
    "3:2 (Landscape Photography - DSLR/Mirrorless)",
    "4:3 (Landscape Standard - Older TV, iPad)",
    "5:4 (Landscape - Large Format Photography)",
    "7:5 (Landscape Photo Print)",
    "1.85:1 (Cinematic Widescreen - Academy Flat)",
    "2:1 (Univisium, some smartphones)",
    "2.35:1 (Cinematic Anamorphic Widescreen - older standard)",
    "2.39:1 / 2.40:1 (Cinematic Anamorphic Widescreen - current standard)",
    "21:9 (Ultrawide Monitor / Marketing term for ~2.3x:1)",
    "32:9 (Super Ultrawide Monitor)", "2:1 Panoramic", "3:1 Panoramic",
    "XPan (65:24 or ~2.7:1, Hasselblad XPan camera)",
    "Golden Ratio (~1.618:1)" }

SubjectPositionOption ==
  { "center frame", "center foreground", "center midground",
    "center background", "top-left foreground", "top-center foreground",
    "top-right foreground", "middle-left foreground",
    "middle-right foreground", "bottom-left foreground",
    "bottom-center foreground", "bottom-right foreground",
    "top-left midground", "top-center midground", "top-right midground",
    "middle-left midground", "middle-right midground",
    "bottom-left midground", "bottom-center midground",
    "bottom-right midground", "top-left background", "top-center background",
    "top-right background", "middle-left background",
    "middle-right background", "bottom-left background",
    "bottom-center background", "bottom-right background",
    "dominant in frame", "partially off-screen left",
    "partially off-screen right", "slightly off-center", "filling the frame" }

EnvironmentTypeOption ==
  { "interior - domestic (room, house)",
    "interior - public (office, mall, station, museum)",
    "interior - industrial (factory, warehouse, lab)",
    "interior - fantastical (cave, dungeon, spaceship bridge, alien structure)",
    "exterior - urban (city street, skyscraper rooftop, alleyway, park)",
    "exterior - suburban (residential street, backyard)",
    "exterior - rural (farmland, countryside, village)",
    "exterior - nature (forest, mountain, beach, desert, jungle, plains, tundra)",
    "exterior - fantastical (alien planet, dreamscape, floating islands, underworld)",
    "studio backdrop (plain color, textured, greenscreen, cyclorama)",
    "sky / space (clouds, stars, nebula, galaxy)",
    "underwater (ocean floor, coral reef, open water)" }

WidthOption ==
  { "512", "768", "1024", "1280", "1344", "1536", "1920", "2048", "2560",
    "3840", "4096", "7680" }

HeightOption ==
  { "512", "768", "1024", "1080", "1200", "1344", "1440", "1536", "1920",
    "2160", "4096", "4320" }

\* Variant: the labels name the use first and the number last.
DpiOptionUseFirst ==
  { "Web/Screen (72)", "Windows Default (96)", "Draft Print (150)",
    "Standard Print (300)", "High-Res Print (600)" }

DpiOption ==
  { "72 (Web/Screen)", "96 (Windows Default)", "150 (Draft Print)",
    "300 (Standard Print)", "600 (High-Res Print)" }

TextPositionOption ==
  { "top-left corner", "top-right corner", "bottom-left corner",
    "bottom-right corner", "top-center edge", "bottom-center edge",
    "left-center edge", "right-center edge", "center of image",
    "top-banner (strip across the top)",
    "bottom-banner (strip across the bottom)",
    "left-sidebar (strip down the left)",
    "right-sidebar (strip down the right)", "slightly above center",
    "slightly below center", "offset from top-left",
    "within rule-of-thirds top-left intersection",
    "aligned with subject's eyeline" }

\* Variant: a closed enumeration, only the listed constants.
StrictEnum(options, v) == v.t = "str" /\ v.s \in options

\* `XOption | (string & {})`: one of the listed constants, or any string.
OpenEnum(options, v) == (v.t = "str" /\ v.s \in options) \/ v.t = "str"

RequiredKeys ==
  {"scene", "subjects", "style", "lighting", "mood", "background",
   "composition", "camera", "color_palette", "resolution"}
OptionalKeys ==
  {"props", "text_overlays", "negative_prompt", "seed", "guidance_scale",
   "num_inference_steps", "model_identifier"}

\* A value of the interface: every required property, no undeclared one.
IsImageGenerationPrompt(d) ==
  /\ \A k \in RequiredKeys : HasKey(d, k)
  /\ \A i \in 1..Len(d.fields) : d.fields[i].k \in RequiredKeys \cup OptionalKeys

\* The smallest literal the interface accepts; `subjects` is empty, the
\* open-enumeration fields hold strings outside the listed constants and
\* the aspect ratio does not match width and height.
BasePrompt ==
  Obj(<<
    Prop("scene", Str("a")),
    Prop("subjects", Arr(<<>>)),
    Prop("style", Str("my own style")),
    Prop("lighting", Str("candlelight (warm, flickering, intimate)")),
    Prop("mood", Str("cozy and comforting")),
    Prop("background", Obj(<<
      Prop("elements", Arr(<<>>)),
      Prop("depth_of_field", Str("none")) >>)),
    Prop("composition", Str("centered")),
    Prop("camera", Obj(<<
      Prop("angle", Str("low")),
      Prop("distance", Str("near")),
      Prop("focus", Str("sharp")) >>)),
    Prop("color_palette", Arr(<<Str("red")>>)),
    Prop("resolution", Obj(<<
      Prop("width", Num(40960)),
      Prop("height", Str("4320")),
      Prop("aspect_ratio", Str("1:1")),
      Prop("dpi", Num(3000)) >>)) >>)

Overlay(opacity, rotation) ==
  Obj(<<
    Prop("content", Str("c")), Prop("position", Str("over.there")),
    Prop("style", Str("bold")), Prop("font_family", Str("f")),
    Prop("font_color", Str("gold")), Prop("size", Str("24pt")),
    Prop("opacity", opacity), Prop("rotation", rotation) >>)

OtherSchemaUrl == "https://example.com/other.schema.json"

\* A literal whose open-enumeration fields all hold strings of its own,
\* with an overlay whose opacity is below 0.
CustomPrompt ==
  Obj(<<
    Prop("scene", Str("b")),
    Prop("subjects", Arr(<<
      Obj(<<
        Prop("type", Str("glass with smoothie")),
        Prop("description", Str("d")),
        Prop("pose", Str("sitting")),
        Prop("position", Str("a little to the left")),
        Prop("expression", Str("happy")) >>) >>)),
    Prop("style", Str("my own style")),
    Prop("lighting", Str("torchlight")),
    Prop("mood", Str("hungry")),
    Prop("background", Obj(<<
      Prop("environment_type", Str("a kitchen")),
      Prop("elements", Arr(<<Str("a window")>>)),
      Prop("depth_of_field", Str("none")) >>)),
    Prop("composition", Str("crooked")),
    Prop("camera", Obj(<<
      Prop("angle", Str("from under the table")),
      Prop("distance", Str("too near")),
      Prop("lens_type", Str("pinhole")),
      Prop("focus", Str("on the straw")) >>)),
    Prop("color_palette", Arr(<<Str("red")>>)),
    Prop("resolution", Obj(<<
      Prop("width", Str("1920")),
      Prop("height", Num(10800)),
      Prop("aspect_ratio", Str("wide")),
      Prop("dpi", Str("72 (Web/Screen)")) >>)),
    Prop("text_overlays", Arr(<<Overlay(Num(-5), Num(0))>>)) >>)

Documents ==
  { SmoothiePrompt,
    BasePrompt,
    CustomPrompt,
    SetProp(BasePrompt, "seed", Undefined),
    SetProp(BasePrompt, "seed", NaN),
    SetProp(SetProp(BasePrompt, "guidance_scale", PosInfinity),
            "num_inference_steps", NegInfinity),
    SetProp(BasePrompt, "text_overlays", Arr(<<Overlay(Num(0), NegZero)>>)),
    SetProp(BasePrompt, "text_overlays",
            Arr(<<Overlay(Num(10), Undefined), Overlay(Num(15), Num(900))>>)),
    SetProp(BasePrompt, "negative_prompt", Arr(<<Str("text"), Str("blurry")>>)),
    SetProp(BasePrompt, "$schema", Str(OtherSchemaUrl)) }

\* ------------------------------------------------------------------------
\* The file system and Bun.write
\* ------------------------------------------------------------------------
ProjectRoot == "/project"
ScriptDir == "/project/src"
Dirs == {ProjectRoot, ScriptDir, "/home/user"}

Resolve(dir, name) == dir \o "/" \o name
Paths == {Resolve(d, n) : d \in Dirs, n \in {"prompt.json", "package.json"}}

Absent == [exists |-> FALSE, data |-> <<>>]
File(data) == [exists |-> TRUE, data |-> data]

\* What prompt.json can hold before a run: nothing, some other text, or the
\* artifact of an earlier run on another literal.
PriorArtifact ==
  File(SuperJSON_stringify(Spread(
         SetProp(SetProp(BasePrompt, "seed", Num(420)),
                 "model_identifier", Str("dall-e-3-hd")))))
PriorContents ==
  { Absent,
    File(<<TokStr("old notes")>>),
    PriorArtifact }

MaxPartial == 2

OpenErrors == {"EACCES"}
WriteErrors == {"ENOSPC"}

Min(a, b) == IF a < b THEN a ELSE b

\* Variants: the path is resolved against the directory of the script
\* (import.meta.dir), or against the project root.
OutputPathInScriptDir(dir) == Resolve(ScriptDir, "prompt.json")
OutputPathAtRoot(dir) == Resolve(ProjectRoot, "prompt.json")

\* Bun.file("prompt.json"): a relative path, resolved against the working
\* directory of the process.
OutputPath(dir) == Resolve(dir, "prompt.json")

\* Variant: the destination is opened for appending.
OpenedForAppend(old) == File(old.data)

\* The destination right after it was opened for writing: created if
\* missing, truncated if not.
Opened(old) == File(<<>>)

\* Every way one Bun.write(file, data) can end: the open fails and nothing
\* changes; the write fails after n tokens reached the file; or all of the
\* data is written.
Bun_write(files, path, data) ==
  { [files |-> files, opened |-> FALSE, error |-> e] : e \in OpenErrors }
  \cup
  { [files |-> [files EXCEPT ![path] =
                  File(Opened(files[path]).data \o SubSeq(data, 1, n))],
     opened |-> TRUE, error |-> e] :
      n \in 0..Min(MaxPartial, Len(data) - 1), e \in WriteErrors }
  \cup
  { [files |-> [files EXCEPT ![path] = File(Opened(files[path]).data \o data)],
     opened |-> TRUE, error |-> ""] }

\* Variants: the rejection is caught and dropped; it is caught and another
\* error is thrown in its place; the promise is never settled.
AwaitSwallowed(outcome) == [pc |-> "done", exitError |-> ""]
AwaitRethrown(outcome) ==
  IF outcome.error = ""
    THEN [pc |-> "done", exitError |-> ""]
    ELSE [pc |-> "failed", exitError |-> "Error: could not write prompt.json"]
AwaitPending(outcome) ==
  IF outcome.error = ""
    THEN [pc |-> "done", exitError |-> ""]
    ELSE [pc |-> "pending", exitError |-> ""]

\* Top-level `await` of the promise: a rejection is not caught anywhere, so
\* it ends the process with that error; otherwise the module body is over.
Await(outcome) ==
  IF outcome.error = ""
    THEN [pc |-> "done", exitError |-> ""]
    ELSE [pc |-> "failed", exitError |-> outcome.error]

\* The file-system calls line 59 makes, in order: one write that is handed
\* the whole text.
IoCallsWithReadBack(path, data) ==
  <<[op |-> "write", path |-> path, data |-> data],
    [op |-> "read", path |-> path, data |-> data]>>
IoCalls(path, data) == <<[op |-> "write", path |-> path, data |-> data]>>

\* How a run can be invoked: bare, or with flags, environment variables
\* and a configuration file next to the script.  The script reads none.
Invocations ==
  { [argv |-> "", env |-> "", config |-> ""],
    [argv |-> "--schema=" \o OtherSchemaUrl,
     env |-> OtherSchemaUrl,
     config |-> "prompt.config.json"] }

\* ------------------------------------------------------------------------
\* A consumer of the artifact: width, height and dpi as numbers
\* ------------------------------------------------------------------------
MaxNumber == 7680

Digits == {"0", "1", "2", "3", "4", "5", "6", "7", "8", "9"}
DigitValue(c) == CHOOSE d \in 0..9 : ToString(d) = c

\* The run of decimal digits a string starts with: what is left once the
\* non-digit suffix is stripped.
RECURSIVE DigitsFrom(_, _)
DigitsFrom(s, i) ==
  IF i <= Len(s) /\ CharAt(s, i) \in Digits
    THEN CharAt(s, i) \o DigitsFrom(s, i + 1)
    ELSE ""
LeadingDigits(s) == DigitsFrom(s, 1)

RECURSIVE ParseDigits(_, _, _)
ParseDigits(digits, i, value) ==
  IF i > Len(digits) THEN value
  ELSE ParseDigits(digits, i + 1, 10 * value + DigitValue(CharAt(digits, i)))

\* A number is used as it is; a label is parsed from its leading digits
\* (numbers are counted in tenths), and is not a number without any.
Normalize(v) ==
  IF v.t # "str" THEN v
  ELSE IF LeadingDigits(v.s) = "" THEN NaN
  ELSE Num(10 * ParseDigits(LeadingDigits(v.s), 1, 0))

\* The number a label writes, by its decimal notation.
NumericForm(label) ==
  CHOOSE n \in 0..MaxNumber : ToString(n) = LeadingDigits(label)

\* "W:H" against width and height.
AspectRatioMatches(resolution) ==
  LET ratio == Get(resolution, "aspect_ratio").s
      w == LeadingDigits(ratio)
      h == DigitsFrom(ratio, Len(w) + 2)
      width == Normalize(Get(resolution, "width"))
      height == Normalize(Get(resolution, "height"))
  IN /\ w # "" /\ h # ""
     /\ ratio = w \o ":" \o h
     /\ width.t = "num" /\ height.t = "num"
     /\ ParseDigits(w, 1, 0) * height.n = ParseDigits(h, 1, 0) * width.n

\* Variant: Object.assign(prompt, { $schema }) in place of the literal.
SpreadOperandAssigned(p) == Spread(p)

\* The spread operand after the object literal was evaluated: the literal
\* builds a new object and only reads `prompt`.
SpreadOperand(p) == p

\* ------------------------------------------------------------------------
\* One run of `bun run src/index.ts`
\* ------------------------------------------------------------------------
VARIABLES
  source,     \* the literal written in src/index.ts for this run
  cwd,        \* working directory of the process
  fs,         \* path -> file
  fsAtStart,  \* fs as the process found it
  pc,         \* "start", "serialize", "write", "done", "failed"
  prompt,     \* const prompt
  json,       \* const json
  writes,     \* calls of Bun.write made so far
  opened,     \* whether the write got as far as opening the destination
  rejected,   \* the error Bun.write's promise was rejected with, or ""
  exitError,  \* the error the process ended with, or ""
  invocation, \* flags, environment and configuration of this run
  enriched,   \* the object { $schema, ...prompt }
  trace,      \* the steps of this run, in the order they happened
  ops,        \* the file-system calls of this run, in order
  run,        \* 1 for the first run on this literal, 2 for the second
  prev,       \* the previous run: its invocation, the file it found, its
              \* `json` and the artifact it left on success
  consumed    \* what a consumer of the artifact computed from `resolution`

vars == <<source, cwd, fs, fsAtStart, pc, prompt, json, writes, opened,
          rejected, exitError, invocation, enriched, trace, ops, run,
          prev, consumed>>

NotConsumed == [read |-> FALSE]
NoRun ==
  [invocation |-> [argv |-> "", env |-> "", config |-> ""],
   found |-> Absent, json |-> <<>>, artifact |-> Absent]

Init ==
  /\ source \in Documents
  /\ cwd \in Dirs
  /\ \E prior \in PriorContents :
       fs = [p \in Paths |->
              IF \E d \in Dirs : p = Resolve(d, "prompt.json")
                THEN prior
                ELSE File(<<TokStr("package")>>)]
  /\ fsAtStart = fs
  /\ pc = "start"
  /\ prompt = Undefined
  /\ json = <<>>
  /\ writes = 0
  /\ opened = FALSE
  /\ rejected = ""
  /\ exitError = ""
  /\ invocation \in Invocations
  /\ enriched = Undefined
  /\ trace = <<>>
  /\ ops = <<>>
  /\ run = 1
  /\ prev = NoRun
  /\ consumed = NotConsumed

\* Variant: opacity is clamped to [0, 1] when the prompt is built.
ClampOpacity(v) ==
  IF v.t # "num" THEN v
  ELSE IF v.n < 0 THEN Num(0)
  ELSE IF v.n > 10 THEN Num(10)
  ELSE v
WithClampedOpacity(d) ==
  IF ~HasKey(d, "text_overlays") THEN d
  ELSE SetProp(d, "text_overlays",
         Arr([i \in 1..Len(Get(d, "text_overlays").items) |->
               SetProp(Get(d, "text_overlays").items[i], "opacity",
                       ClampOpacity(Get(Get(d, "text_overlays").items[i], "opacity")))]))
ConstructClamped ==
  /\ pc = "start"
  /\ prompt' = WithClampedOpacity(source)
  /\ trace' = Append(trace, "construct")
  /\ pc' = "serialize"
  /\ UNCHANGED <<source, cwd, fs, fsAtStart, json, writes, opened, rejected,
                 exitError, invocation, enriched, ops, run, prev,
                 consumed>>

\* Variant: the shape is validated when the prompt is built; a prompt
\* without subjects, or whose aspect ratio does not match width and height,
\* is refused.
ConstructValidated ==
  /\ pc = "start"
  /\ prompt' = source
  /\ trace' = Append(trace, "construct")
  /\ IF \/ Get(source, "subjects").items = <<>>
        \/ ~AspectRatioMatches(Get(source, "resolution"))
       THEN pc' = "failed" /\ exitError' = "ValidationError"
       ELSE pc' = "serialize" /\ exitError' = exitError
  /\ UNCHANGED <<source, cwd, fs, fsAtStart, json, writes, opened, rejected,
                 invocation, enriched, ops, run, prev, consumed>>

\* lines 4-51
Construct ==
  /\ pc = "start"
  /\ prompt' = source
  /\ trace' = Append(trace, "construct")
  /\ pc' = "serialize"
  /\ UNCHANGED <<source, cwd, fs, fsAtStart, json, writes, opened, rejected,
                 exitError, invocation, enriched, ops, run, prev,
                 consumed>>

\* Variant: the schema URL can be overridden from the environment.
SerializeFromEnv ==
  /\ pc = "serialize"
  /\ enriched' = (IF invocation.env = "" THEN Spread(prompt)
                  ELSE SetProp(Spread(prompt), "$schema", Str(invocation.env)))
  /\ json' = SuperJSON_stringify(enriched')
  /\ prompt' = SpreadOperand(prompt)
  /\ trace' = trace \o <<"$schema", "stringify">>
  /\ pc' = "write"
  /\ UNCHANGED <<source, cwd, fs, fsAtStart, writes, opened, rejected,
                 exitError, invocation, ops, run, prev, consumed>>

\* lines 53-57
Serialize ==
  /\ pc = "serialize"
  /\ enriched' = Spread(prompt)
  /\ json' = SuperJSON_stringify(Spread(prompt))
  /\ prompt' = SpreadOperand(prompt)
  /\ trace' = trace \o <<"$schema", "stringify">>
  /\ pc' = "write"
  /\ UNCHANGED <<source, cwd, fs, fsAtStart, writes, opened, rejected,
                 exitError, invocation, ops, run, prev, consumed>>

\* line 59
Write ==
  /\ pc = "write"
  /\ \E outcome \in Bun_write(fs, OutputPath(cwd), json) :
       /\ fs' = outcome.files
       /\ opened' = outcome.opened
       /\ rejected' = outcome.error
       /\ pc' = Await(outcome).pc
       /\ exitError' = Await(outcome).exitError
  /\ writes' = writes + 1
  /\ ops' = ops \o IoCalls(OutputPath(cwd), json)
  /\ trace' = Append(trace, "write")
  /\ UNCHANGED <<source, cwd, fsAtStart, prompt, json, invocation, enriched,
                 run, prev, consumed>>

Next == Construct \/ Serialize \/ Write

Spec == Init /\ [][Next]_vars

\* The same source is run a second time, in the same directory, on the
\* files the first run left; flags, environment and configuration may
\* differ from the first run's.
Rerun ==
  /\ pc \in {"done", "failed"}
  /\ run = 1
  /\ run' = 2
  /\ prev' = [invocation |-> invocation,
              found |-> fsAtStart[OutputPath(cwd)],
              json |-> json,
              artifact |-> IF pc = "done" THEN fs[OutputPath(cwd)] ELSE Absent]
  /\ invocation' \in Invocations
  /\ fsAtStart' = fs
  /\ pc' = "start"
  /\ prompt' = Undefined
  /\ enriched' = Undefined
  /\ json' = <<>>
  /\ writes' = 0
  /\ opened' = FALSE
  /\ rejected' = ""
  /\ exitError' = ""
  /\ trace' = <<>>
  /\ ops' = <<>>
  /\ UNCHANGED <<source, cwd, fs, consumed>>

\* A consumer loads the artifact a successful run left and normalizes
\* the three numeric-or-label fields of `resolution`.
Consume ==
  /\ pc = "done"
  /\ consumed = NotConsumed
  /\ consumed' =
       LET resolution == Get(SuperJSON_parse(fs[OutputPath(cwd)].data), "resolution")
       IN [read |-> TRUE,
           width |-> Normalize(Get(resolution, "width")),
           height |-> Normalize(Get(resolution, "height")),
           dpi |-> Normalize(Get(resolution, "dpi"))]
  /\ UNCHANGED <<source, cwd, fs, fsAtStart, pc, prompt, json, writes, opened,
                 rejected, exitError, invocation, enriched, trace, ops, run,
                 prev>>

\* The literals that differ from BasePrompt in one of width, height, dpi:
\* every listed label, and the number each label writes.
WithResolution(field, value) ==
  SetProp(BasePrompt, "resolution",
          SetProp(Get(BasePrompt, "resolution"), field, value))
LabelsOf(field) ==
  CASE field = "width" -> WidthOption
    [] field = "height" -> HeightOption
    [] field = "dpi" -> DpiOption
ResolutionDocuments ==
  UNION { { WithResolution(field, Str(label)) : label \in LabelsOf(field) }
          \cup
          { WithResolution(field, Num(10 * NumericForm(label))) :
              label \in { l \in LabelsOf(field) : LeadingDigits(l) # "" } } :
          field \in {"width", "height", "dpi"} }

ConsumerInit ==
  /\ source \in ResolutionDocuments
  /\ cwd = ProjectRoot
  /\ fs = [p \in Paths |->
            IF \E d \in Dirs : p = Resolve(d, "prompt.json")
              THEN Absent
              ELSE File(<<TokStr("package")>>)]
  /\ fsAtStart = fs
  /\ pc = "start"
  /\ prompt = Undefined
  /\ json = <<>>
  /\ writes = 0
  /\ opened = FALSE
  /\ rejected = ""
  /\ exitError = ""
  /\ invocation \in Invocations
  /\ enriched = Undefined
  /\ trace = <<>>
  /\ ops = <<>>
  /\ run = 1
  /\ prev = NoRun
  /\ consumed = NotConsumed

NextConsumed == Next \/ Consume

Consumers == ConsumerInit /\ [][NextConsumed]_vars

NextRun == Next \/ Rerun

Reruns == Init /\ [][NextRun]_vars

\* The runtime runs the module body to its end and every file operation
\* returns.
FairSpec == Spec /\ WF_vars(Next)

Terminated == pc \in {"done", "failed"}
Target == OutputPath(cwd)

TypeOK ==
  /\ source \in Documents \cup ResolutionDocuments
  /\ cwd \in Dirs
  /\ pc \in {"start", "serialize", "write", "done", "failed"}
  /\ writes \in 0..1
  /\ opened \in BOOLEAN
  /\ rejected \in {""} \cup OpenErrors \cup WriteErrors

\* ------------------------------------------------------------------------
\* Properties
\* ------------------------------------------------------------------------
Serialized == pc \in {"write", "done", "failed"}
RootArtifact == Resolve(ProjectRoot, "prompt.json")

\* V plus exactly one top-level field, `$schema`, in front.
WithSchema(d) == Obj(<<Prop("$schema", Str(SchemaUrl))>> \o d.fields)

\* Strings, finite numbers, arrays and records only.
RECURSIVE IsPlainValue(_)
IsPlainValue(v) ==
  CASE v.t \in {"str", "num"} -> TRUE
    [] v.t = "arr" -> \A i \in 1..Len(v.items) : IsPlainValue(v.items[i])
    [] v.t = "obj" -> \A i \in 1..Len(v.fields) : IsPlainValue(v.fields[i].v)
    [] OTHER -> FALSE

\* C1: for every value V of the interface, the text SuperJSON.stringify
\* produced - in memory and, after a successful run, in the file - decodes
\* with SuperJSON.parse to V with the single field `$schema` = the fixed
\* URL added in front; nothing else is added, dropped or changed.
C1_RoundTrip ==
  /\ (Serialized /\ IsImageGenerationPrompt(source)) =>
       SuperJSON_parse(json) = WithSchema(source)
  /\ (pc = "done" /\ IsImageGenerationPrompt(source)) =>
       SuperJSON_parse(fs[Target].data) = WithSchema(source)

C1_Witness ==
  /\ pc = "done"
  /\ source = SmoothiePrompt
  /\ Get(SuperJSON_parse(fs[Target].data), "$schema") = Str(SchemaUrl)
  /\ Get(SuperJSON_parse(fs[Target].data), "scene") = Get(SmoothiePrompt, "scene")

\* C2: in every artifact the first top-level field of the document is
\* `$schema` and its value is the fixed schema URL, whatever the input,
\* an input that carries its own `$schema` included.
C2_SchemaFirstAndFixed ==
  Serialized =>
    SuperJSON_parse(json).fields[1] = Prop("$schema", Str(SchemaUrl))

\* C3: once the serializer has run, whether or not the run then succeeds,
\* the caller's `prompt` is the value it was constructed with; no `$schema`
\* was added to it.
C3_PromptNotMutated ==
  Serialized => prompt = source

C3_Witness ==
  /\ pc = "failed"
  /\ prompt = source
  /\ ~HasKey(prompt, "$schema")
  /\ HasKey(SuperJSON_parse(json), "$schema")

\* C4: for a document of plain strings, numbers, arrays and records, the
\* written prompt.json read with JSON.parse is the object SuperJSON.parse
\* returns, with `$schema` as its first top-level field.
C4_PlainJsonReadsDocument ==
  (pc = "done" /\ IsPlainValue(source)) =>
    /\ JSON_parse(fs[Target].data) = SuperJSON_parse(fs[Target].data)
    /\ Keys(JSON_parse(fs[Target].data))[1] = "$schema"

\* C5: a run calls the write once at most, its only destination is
\* prompt.json in the working directory, and every other file is as the
\* process found it: none created, modified or deleted.
C5_OnlyPromptJsonInCwd ==
  /\ \A p \in Paths \ {Resolve(cwd, "prompt.json")} : fs[p] = fsAtStart[p]
  /\ writes <= 1
  /\ pc = "done" => (writes = 1 /\ fs[Resolve(cwd, "prompt.json")].exists)

C5_Witness ==
  /\ pc = "done"
  /\ cwd = ScriptDir
  /\ fs[Resolve(ScriptDir, "prompt.json")] # fsAtStart[Resolve(ScriptDir, "prompt.json")]
  /\ fs[RootArtifact] = fsAtStart[RootArtifact]

\* C6: after a successful run the file holds exactly the new
\* serialization whatever it held before: nothing of the old content is
\* kept in it, and no other file took the old content as a backup.
C6_Overwrites ==
  pc = "done" =>
    /\ fs[Target] = File(SuperJSON_stringify(Spread(source)))
    /\ \A p \in Paths \ {Target} : fs[p] = fsAtStart[p]

C6_Witness ==
  /\ pc = "done"
  /\ fsAtStart[Target].exists
  /\ fsAtStart[Target] # fs[Target]
  /\ fs[Target] = File(json)

\* C7 as stated: a successful run leaves the artifact in the project root,
\* whatever directory the process was started from.
C7_AlwaysInProjectRoot ==
  pc = "done" => fs[RootArtifact] = File(json)

\* C7 amended: the artifact is written in the working directory of the
\* process; that is the project root when the process was started there,
\* and otherwise prompt.json in the project root is left as it was.
C7_InWorkingDirectory ==
  pc = "done" =>
    /\ fs[Resolve(cwd, "prompt.json")] = File(json)
    /\ cwd = ProjectRoot => fs[RootArtifact] = File(json)
    /\ cwd # ProjectRoot => fs[RootArtifact] = fsAtStart[RootArtifact]

C7_Witness ==
  /\ pc = "done"
  /\ cwd = "/home/user"
  /\ fs[Resolve("/home/user", "prompt.json")] = File(json)
  /\ fs[RootArtifact] # File(json)

\* C8 as stated: whenever the write fails, the process ends with the I/O
\* error and the output location holds what it held before the run.
C8_FailedRunLeavesNoArtifact ==
  rejected # "" =>
    /\ pc = "failed"
    /\ exitError = rejected
    /\ fs[Target] = fsAtStart[Target]

\* C8 amended: whenever the write fails, the process ends with the I/O
\* error; if the failure came before the destination was opened, every
\* file is as it was; if it came after, the destination holds a proper
\* prefix of the new serialization (possibly empty) in place of its old
\* content, and nothing removes it.
C8_FailedRunMayLeavePartial ==
  rejected # "" =>
    /\ pc = "failed"
    /\ exitError # ""
    /\ ~opened => fs = fsAtStart
    /\ opened => \E n \in 0..(Len(json) - 1) :
                   fs[Target] = File(SubSeq(json, 1, n))

C8_Witness ==
  /\ pc = "failed"
  /\ opened
  /\ fsAtStart[Target].exists
  /\ fs[Target] = File(SubSeq(json, 1, 1))

\* C9: a run makes at most one write attempt, and the error the process
\* ends with is the very error the write was rejected with: it is neither
\* caught nor replaced, and a rejected write is never followed by success.
C9_ErrorPropagatedUnmodified ==
  /\ writes <= 1
  /\ exitError = rejected
  /\ rejected # "" => (pc = "failed" /\ writes = 1)

C9_Witness ==
  /\ pc = "failed"
  /\ writes = 1
  /\ rejected \in OpenErrors
  /\ exitError = rejected

\* C10: every run terminates; it terminates normally only after a write
\* that completed, and a rejected write always ends it abnormally with an
\* error, so the two endings exclude each other.
C10_Terminates ==
  /\ <>Terminated
  /\ [](pc = "done" => (writes = 1 /\ rejected = "" /\ fs[Target] = File(json)))
  /\ [](rejected # "" => (pc = "failed" /\ exitError # ""))
  /\ [](pc = "failed" => rejected # "")

C10_Witness ==
  /\ pc = "done"
  /\ writes = 1
  /\ ~fsAtStart[Target].exists
  /\ fs[Target].exists

\* C11: the second run on the same literal serializes to text that decodes
\* to the value the first run's text decodes to, and after it succeeds the
\* artifact decodes to what the artifact the first run wrote decoded to.
C11_SecondRunDecodesEqual ==
  /\ (run = 2 /\ Serialized) =>
       SuperJSON_parse(json) = SuperJSON_parse(prev.json)
  /\ (run = 2 /\ pc = "done" /\ prev.artifact.exists) =>
       SuperJSON_parse(fs[Target].data) = SuperJSON_parse(prev.artifact.data)

C11_Witness ==
  /\ run = 2
  /\ pc = "done"
  /\ prev.artifact.exists
  /\ fsAtStart[Target] = prev.artifact
  /\ SuperJSON_parse(fs[Target].data) = WithSchema(source)

\* C18: two runs of the same source that differ in flags, environment,
\* configuration or in what prompt.json held before produce the same text
\* and, when both succeed, leave artifacts with identical content.
C18_ContentDependsOnLiteralOnly ==
  /\ (run = 2 /\ Serialized) => json = prev.json
  /\ (run = 2 /\ pc = "done" /\ prev.artifact.exists) => fs[Target] = prev.artifact

C18_Witness ==
  /\ run = 2
  /\ pc = "done"
  /\ prev.artifact.exists
  /\ invocation # prev.invocation
  /\ fsAtStart[Target] # prev.found
  /\ fs[Target] = prev.artifact

\* The errors a run can end with: those of the file write.
IoErrors == OpenErrors \cup WriteErrors

\* What the artifact decodes to.
Decoded(file) == SuperJSON_parse(file.data)

\* The opacity of each text overlay of a document, in order.
Opacities(d) ==
  IF HasKey(d, "text_overlays") /\ Get(d, "text_overlays").t = "arr"
    THEN [i \in 1..Len(Get(d, "text_overlays").items) |->
           Get(Get(d, "text_overlays").items[i], "opacity")]
    ELSE <<>>

\* C12: no run ends with an error other than the write's, and the opacity
\* of every text overlay, inside or outside [0, 1], decodes from the
\* serialized text and from the written artifact to exactly the value given.
C12_OpacityPreserved ==
  /\ exitError \in {""} \cup IoErrors
  /\ Serialized => Opacities(SuperJSON_parse(json)) = Opacities(source)
  /\ pc = "done" => Opacities(Decoded(fs[Target])) = Opacities(source)

C12_Witness ==
  /\ pc = "done"
  /\ \E i, j \in 1..Len(Opacities(source)) :
       /\ Opacities(source)[i] = Num(10)
       /\ Opacities(source)[j] = Num(15)
  /\ Opacities(Decoded(fs[Target])) = Opacities(source)

\* The open-enumeration fields a document holds: where, the listed
\* constants of the field's type, and the value.
OpenEnumFields(d) ==
  LET Field(name, i, options, value) ==
        [field |-> name, index |-> i, options |-> options, value |-> value]
      Top(k, options) ==
        IF HasKey(d, k) THEN {Field(k, 0, options, Get(d, k))} ELSE {}
      In(parent, k, options) ==
        IF HasKey(d, parent) /\ Get(d, parent).t = "obj" /\ HasKey(Get(d, parent), k)
          THEN {Field(parent \o "." \o k, 0, options, Get(Get(d, parent), k))}
          ELSE {}
      Each(parent, k, options) ==
        IF HasKey(d, parent) /\ Get(d, parent).t = "arr"
          THEN {Field(parent \o "[]." \o k, i, options, Get(Get(d, parent).items[i], k)) :
                  i \in 1..Len(Get(d, parent).items)}
          ELSE {}
  IN Top("style", StyleOption) \cup Top("lighting", LightingOption)
     \cup Top("mood", MoodOption) \cup Top("composition", CompositionOption)
     \cup Each("subjects", "position", SubjectPositionOption)
     \cup In("background", "environment_type", EnvironmentTypeOption)
     \cup In("background", "depth_of_field", DepthOfFieldOption)
     \cup In("camera", "angle", CameraAngleOption)
     \cup In("camera", "distance", CameraDistanceOption)
     \cup In("camera", "lens_type", CameraLensOption)
     \cup In("camera", "focus", CameraFocusOption)
     \cup Each("text_overlays", "position", TextPositionOption)
     \cup In("resolution", "aspect_ratio", AspectRatioOption)

OpenEnumNames ==
  {"style", "lighting", "mood", "composition", "subjects[].position",
   "background.environment_type", "background.depth_of_field",
   "camera.angle", "camera.distance", "camera.lens_type", "camera.focus",
   "text_overlays[].position", "resolution.aspect_ratio"}

\* C13: every open-enumeration field of a literal is accepted by its type
\* whether or not its string is a listed constant, no run ends with an error
\* other than the write's, and every such field decodes from the serialized
\* text and from the artifact to the string given.
C13_OpenEnumsPreserved ==
  /\ \A f \in OpenEnumFields(source) : OpenEnum(f.options, f.value)
  /\ exitError \in {""} \cup IoErrors
  /\ Serialized => OpenEnumFields(SuperJSON_parse(json)) = OpenEnumFields(source)
  /\ pc = "done" => OpenEnumFields(Decoded(fs[Target])) = OpenEnumFields(source)

C13_Witness ==
  /\ pc = "done"
  /\ {f.field : f \in {g \in OpenEnumFields(source) : g.value.s \notin g.options}}
       = OpenEnumNames
  /\ OpenEnumFields(Decoded(fs[Target])) = OpenEnumFields(source)

\* C14: every label of WidthOption, HeightOption and DpiOption starts with
\* a decimal digit, and the number a consumer gets from a label in the
\* artifact is the number it gets from the numeric form of the label.
C14_LabelsNormalize ==
  /\ \A label \in WidthOption \cup HeightOption \cup DpiOption :
       LeadingDigits(label) # ""
  /\ consumed.read =>
       \A field \in {"width", "height", "dpi"} :
         LET given == Get(Get(source, "resolution"), field)
         IN IF given.t = "str"
              THEN \E n \in 0..MaxNumber :
                     /\ ToString(n) = LeadingDigits(given.s)
                     /\ consumed[field] = Normalize(Num(10 * n))
                     /\ consumed[field] = Num(10 * n)
              ELSE consumed[field] = given

C14_Witness ==
  /\ consumed.read
  /\ Get(Get(source, "resolution"), "dpi") = Str("300 (Standard Print)")
  /\ consumed.dpi = Num(3000)
  /\ consumed.width = Num(40960)

\* C15: a run ends with no error other than the write's, whatever the
\* literal holds; `subjects` and `resolution` decode from the serialized
\* text and from the artifact to the values given, an empty `subjects` and
\* an aspect ratio that does not match width and height included.
C15_NoShapeRejection ==
  /\ exitError \in {""} \cup IoErrors
  /\ pc = "failed" => rejected \in IoErrors
  /\ pc # "start" => prompt = source
  /\ Serialized =>
       /\ Get(SuperJSON_parse(json), "subjects") = Get(source, "subjects")
       /\ Get(SuperJSON_parse(json), "resolution") = Get(source, "resolution")
  /\ pc = "done" =>
       /\ Get(Decoded(fs[Target]), "subjects") = Get(source, "subjects")
       /\ Get(Decoded(fs[Target]), "resolution") = Get(source, "resolution")

C15_Witness ==
  /\ pc = "done"
  /\ exitError = ""
  /\ Get(source, "subjects").items = <<>>
  /\ ~AspectRatioMatches(Get(source, "resolution"))
  /\ Get(Decoded(fs[Target]), "subjects") = Arr(<<>>)
  /\ ~AspectRatioMatches(Get(Decoded(fs[Target]), "resolution"))

StepOrder == <<"construct", "$schema", "stringify", "write">>

\* C16: the steps taken so far are always a prefix of construction,
\* addition of `$schema`, serialization, write; the only file operation of
\* a run is one write, issued after serialization, of the whole serialized
\* text to prompt.json of the working directory; nothing is read.
C16_OneWayDataFlow ==
  /\ \E n \in 0..Len(StepOrder) : trace = SubSeq(StepOrder, 1, n)
  /\ Serialized =>
       /\ enriched = Spread(prompt)
       /\ json = SuperJSON_stringify(enriched)
  /\ Len(ops) <= 1
  /\ Len(ops) = writes
  /\ \A i \in 1..Len(ops) :
       /\ trace = StepOrder
       /\ ops[i].op = "write"
       /\ ops[i].path = Target
       /\ ops[i].data = json
  /\ pc = "done" => (ops # <<>> /\ fs[Target] = File(json))

C16_Witness ==
  /\ pc = "done"
  /\ trace = StepOrder
  /\ ops = <<[op |-> "write", path |-> Target, data |-> json]>>
  /\ fsAtStart[Target].exists
  /\ fs[Target] = File(SuperJSON_stringify(Spread(source)))

\* The names of the top-level fields of a document.
FieldNames(d) == {d.fields[i].k : i \in 1..Len(d.fields)}

\* C17: the top-level fields of the serialized document, of its decoded
\* value and of the decoded artifact are the fields of the literal plus
\* `$schema`, whatever prompt.json held before the run.
C17_NoDefaultingNoMerging ==
  /\ Serialized =>
       /\ FieldNames(SuperJSON_parse(json)) = FieldNames(source) \cup {"$schema"}
       /\ FieldNames(Get(JSON_parse(json), "json")) = FieldNames(source) \cup {"$schema"}
  /\ pc = "done" =>
       /\ FieldNames(Decoded(fs[Target])) = FieldNames(source) \cup {"$schema"}
       /\ FieldNames(Get(JSON_parse(fs[Target].data), "json"))
            = FieldNames(source) \cup {"$schema"}

C17_Witness ==
  /\ pc = "done"
  /\ fsAtStart[Target] = PriorArtifact
  /\ {"seed", "model_identifier"} \subseteq FieldNames(Decoded(fsAtStart[Target]))
  /\ FieldNames(source) \cap OptionalKeys = {}
  /\ FieldNames(Decoded(fs[Target])) \cap OptionalKeys = {}

====
